---- MODULE Spec2Model ----
(***************************************************************************)
(* Book catalog (src/main.py): a table of Book rows, the bootstrap that    *)
(* seeds it, the keyword recommender and the six route handlers.           *)
(*                                                                         *)
(* Text is a sequence of Unicode code points (97 is "a", 1080 is the       *)
(* Cyrillic small letter i), so that str.lower, str.split, str.strip,      *)
(* str.join and the substring test are computed on characters.             *)
(* An optional value (Python None or a value) is a sequence of length      *)
(* at most one.                                                            *)
(***************************************************************************)
EXTENDS Integers, Sequences, FiniteSets

\* store:   the rows of the Book table, as select(Book) lists them
\* started: the module has been imported (bootstrap run, app created)
\* printed: the lines create_db_and_tables has printed
\* op:      the operation served last
\* req:     its request fields
\* resp:    its response
VARIABLES store, started, printed, op, req, resp

vars == <<store, started, printed, op, req, resp>>

----------------------------------------------------------------------------
(* Bounds of the model *)

\* longest user_query drawn for the recommender
MaxQueryLen == 3
\* longest sequence of books drawn for the recommender
MaxBooksIn == 3
\* longest tags form field drawn for POST /
MaxFormLen == 4
\* creations served after startup
MaxCreates == 2

----------------------------------------------------------------------------
(* Python values and str methods *)

None == <<>>

Some(v) == <<v>>

\* code points for which str.isspace holds, below U+0100
IsSpace(c) == c \in {9, 10, 11, 12, 13, 28, 29, 30, 31, 32, 133, 160}

\* str.lower on one code point: Basic Latin and the Russian alphabet
LowerChar(c) ==
  IF c >= 65 /\ c =< 90 THEN c + 32
  ELSE IF c >= 1040 /\ c =< 1071 THEN c + 32
  ELSE IF c = 1025 THEN 1105
  ELSE c

\* s.lower()
lower(s) == [i \in 1..Len(s) |-> LowerChar(s[i])]

\* s.strip(): drop the leading and the trailing whitespace
strip(s) ==
  LET nonspace == {i \in 1..Len(s) : ~IsSpace(s[i])}
  IN  IF nonspace = {} THEN <<>>
      ELSE LET first == CHOOSE i \in nonspace : \A j \in nonspace : i =< j
               last  == CHOOSE i \in nonspace : \A j \in nonspace : j =< i
           IN  SubSeq(s, first, last)

\* s.split(sep) for a one-character sep: every occurrence of sep cuts, so
\* empty pieces are kept and "" gives one empty piece
RECURSIVE SplitSepScan(_, _, _, _, _)
SplitSepScan(s, sep, i, piece, pieces) ==
  IF i > Len(s) THEN Append(pieces, piece)
  ELSE IF s[i] = sep
       THEN SplitSepScan(s, sep, i + 1, <<>>, Append(pieces, piece))
       ELSE SplitSepScan(s, sep, i + 1, Append(piece, s[i]), pieces)

split_sep(s, sep) == SplitSepScan(s, sep, 1, <<>>, <<>>)

\* s.split(): scan left to right, skip whitespace, cut each run of
\* non-whitespace; no empty word is ever produced
RECURSIVE SplitScan(_, _, _, _)
SplitScan(s, i, word, words) ==
  IF i > Len(s)
  THEN IF word = <<>> THEN words ELSE Append(words, word)
  ELSE IF IsSpace(s[i])
       THEN SplitScan(s, i + 1, <<>>,
                      IF word = <<>> THEN words ELSE Append(words, word))
       ELSE SplitScan(s, i + 1, Append(word, s[i]), words)

\* split as s.split(" ") would cut: at every space, empty words kept
split_on_space(s) == SplitSepScan(s, 32, 1, <<>>, <<>>)

split(s) == SplitScan(s, 1, <<>>, <<>>)

\* sep.join(parts)
RECURSIVE JoinFrom(_, _, _)
JoinFrom(sep, parts, i) ==
  IF i > Len(parts) THEN <<>>
  ELSE IF i = Len(parts) THEN parts[i]
  ELSE parts[i] \o sep \o JoinFrom(sep, parts, i + 1)

join(sep, parts) == JoinFrom(sep, parts, 1)

\* word in text as a whole-word test: word is one of the words of text
ContainsWord(text, word) ==
  \E k \in 1..Len(split(text)) : split(text)[k] = word

\* word in text: text has a slice equal to word (the empty word is in
\* every text)
Contains(text, word) ==
  \E k \in 0..(Len(text) - Len(word)) : SubSeq(text, k + 1, k + Len(word)) = word

----------------------------------------------------------------------------
(* Seed data of create_db_and_tables, in insertion order *)

initial_books ==
  <<
  \* Izuchaem Python / Mark Lutc / motivaciya, ucheba, razvitie, praktika
  [title |-> <<1048, 1079, 1091, 1095, 1072, 1077, 1084, 32, 80, 121, 116, 104, 111, 110>>,
   author |-> <<1052, 1072, 1088, 1082, 32, 1051, 1091, 1090, 1094>>,
   tags |-> <<<<1084, 1086, 1090, 1080, 1074, 1072, 1094, 1080, 1103>>,
             <<1091, 1095, 1077, 1073, 1072>>,
             <<1088, 1072, 1079, 1074, 1080, 1090, 1080, 1077>>,
             <<1087, 1088, 1072, 1082, 1090, 1080, 1082, 1072>>>>],
  \* Chistyj kod / Robert Martin / professionalizm, kachestvo, struktura, luchshie praktiki
  [title |-> <<1063, 1080, 1089, 1090, 1099, 1081, 32, 1082, 1086, 1076>>,
   author |-> <<1056, 1086, 1073, 1077, 1088, 1090, 32, 1052, 1072, 1088, 1090, 1080, 1085>>,
   tags |-> <<<<1087, 1088, 1086, 1092, 1077, 1089, 1089, 1080, 1086, 1085, 1072, 1083, 1080, 1079, 1084>>,
             <<1082, 1072, 1095, 1077, 1089, 1090, 1074, 1086>>,
             <<1089, 1090, 1088, 1091, 1082, 1090, 1091, 1088, 1072>>,
             <<1083, 1091, 1095, 1096, 1080, 1077, 32, 1087, 1088, 1072, 1082, 1090, 1080, 1082, 1080>>>>],
  \* Avtostopom po galaktike / Duglas Adams / yumor, priklyucheniya, filosofiya, absurd
  [title |-> <<1040, 1074, 1090, 1086, 1089, 1090, 1086, 1087, 1086, 1084, 32, 1087, 1086, 32, 1075, 1072, 1083, 1072, 1082, 1090, 1080, 1082, 1077>>,
   author |-> <<1044, 1091, 1075, 1083, 1072, 1089, 32, 1040, 1076, 1072, 1084, 1089>>,
   tags |-> <<<<1102, 1084, 1086, 1088>>,
             <<1087, 1088, 1080, 1082, 1083, 1102, 1095, 1077, 1085, 1080, 1103>>,
             <<1092, 1080, 1083, 1086, 1089, 1086, 1092, 1080, 1103>>,
             <<1072, 1073, 1089, 1091, 1088, 1076>>>>],
  \* 1984 / Dzhordzh Oruell / antiutopiya, politika, kontrol', razmyshleniya
  [title |-> <<49, 57, 56, 52>>,
   author |-> <<1044, 1078, 1086, 1088, 1076, 1078, 32, 1054, 1088, 1091, 1101, 1083, 1083>>,
   tags |-> <<<<1072, 1085, 1090, 1080, 1091, 1090, 1086, 1087, 1080, 1103>>,
             <<1087, 1086, 1083, 1080, 1090, 1080, 1082, 1072>>,
             <<1082, 1086, 1085, 1090, 1088, 1086, 1083, 1100>>,
             <<1088, 1072, 1079, 1084, 1099, 1096, 1083, 1077, 1085, 1080, 1103>>>>],
  \* Master i Margarita / Mihail Bulgakov / mistika, satira, dobro i zlo, klassika
  [title |-> <<1052, 1072, 1089, 1090, 1077, 1088, 32, 1080, 32, 1052, 1072, 1088, 1075, 1072, 1088, 1080, 1090, 1072>>,
   author |-> <<1052, 1080, 1093, 1072, 1080, 1083, 32, 1041, 1091, 1083, 1075, 1072, 1082, 1086, 1074>>,
   tags |-> <<<<1084, 1080, 1089, 1090, 1080, 1082, 1072>>,
             <<1089, 1072, 1090, 1080, 1088, 1072>>,
             <<1076, 1086, 1073, 1088, 1086, 32, 1080, 32, 1079, 1083, 1086>>,
             <<1082, 1083, 1072, 1089, 1089, 1080, 1082, 1072>>>>],
  \* Tri tovarischa / Erih Mariya Remark / druzhba, lyubov', poterya, melanholiya
  [title |-> <<1058, 1088, 1080, 32, 1090, 1086, 1074, 1072, 1088, 1080, 1097, 1072>>,
   author |-> <<1069, 1088, 1080, 1093, 32, 1052, 1072, 1088, 1080, 1103, 32, 1056, 1077, 1084, 1072, 1088, 1082>>,
   tags |-> <<<<1076, 1088, 1091, 1078, 1073, 1072>>,
             <<1083, 1102, 1073, 1086, 1074, 1100>>,
             <<1087, 1086, 1090, 1077, 1088, 1103>>,
             <<1084, 1077, 1083, 1072, 1085, 1093, 1086, 1083, 1080, 1103>>>>],
  \* Malen'kij princ / Antuan de Sent-Ekzyuperi / filosofiya, deti, druzhba, prostye istiny
  [title |-> <<1052, 1072, 1083, 1077, 1085, 1100, 1082, 1080, 1081, 32, 1087, 1088, 1080, 1085, 1094>>,
   author |-> <<1040, 1085, 1090, 1091, 1072, 1085, 32, 1076, 1077, 32, 1057, 1077, 1085, 1090, 45, 1069, 1082, 1079, 1102, 1087, 1077, 1088, 1080>>,
   tags |-> <<<<1092, 1080, 1083, 1086, 1089, 1086, 1092, 1080, 1103>>,
             <<1076, 1077, 1090, 1080>>,
             <<1076, 1088, 1091, 1078, 1073, 1072>>,
             <<1087, 1088, 1086, 1089, 1090, 1099, 1077, 32, 1080, 1089, 1090, 1080, 1085, 1099>>>>]
  >>

----------------------------------------------------------------------------
(* recommend_book_simple *)

\* the tags joined without the separator
tags_text_glued(book) == lower(join(<<>>, book.tags))

\* " ".join(book.tags).lower()
tags_text(book) == lower(join(<<32>>, book.tags))

\* sum(1 for word in query_words if word in tags_text)
match_score(query_words, book) ==
  Cardinality({k \in 1..Len(query_words) :
                 Contains(tags_text(book), query_words[k])})

\* a tie replaces the best
ImprovesOrTies(score, best_match_score) == score >= best_match_score

\* match_score > best_match_score
Improves(score, best_match_score) == score > best_match_score

\* the for loop without the tags check and with ties replacing the best
RECURSIVE ScanBooksNoSkip(_, _, _, _)
ScanBooksNoSkip(query_words, all_books, i, best) ==
  IF i > Len(all_books) THEN best[1]
  ELSE LET book == all_books[i]
       IN  IF match_score(query_words, book) >= best[2]
           THEN ScanBooksNoSkip(query_words, all_books, i + 1,
                                <<Some(book), match_score(query_words, book)>>)
           ELSE ScanBooksNoSkip(query_words, all_books, i + 1, best)

\* the for loop: best is <<best_book, best_match_score>>; a book without
\* tags is skipped, a strictly greater score replaces the best
RECURSIVE ScanBooks(_, _, _, _)
ScanBooks(query_words, all_books, i, best) ==
  IF i > Len(all_books) THEN best[1]
  ELSE LET book == all_books[i]
       IN  IF book.tags = <<>>
           THEN ScanBooks(query_words, all_books, i + 1, best)
           ELSE IF Improves(match_score(query_words, book), best[2])
                THEN ScanBooks(query_words, all_books, i + 1,
                               <<Some(book), match_score(query_words, book)>>)
                ELSE ScanBooks(query_words, all_books, i + 1, best)

\* the recommender without the blank-query check, cutting the query at
\* every space
recommend_book_unguarded(user_query, all_books) ==
  ScanBooks(split_on_space(lower(user_query)), all_books, 1, <<None, 0>>)

recommend_book_simple(user_query, all_books) ==
  IF user_query = <<>> \/ strip(user_query) = <<>> THEN None
  ELSE ScanBooks(split(lower(user_query)), all_books, 1, <<None, 0>>)

----------------------------------------------------------------------------
(* The Book table *)

\* ids of the rows
Ids(rows) == {rows[i].id : i \in 1..Len(rows)}

\* the integer primary key the table gives a row inserted without an id:
\* one more than the largest id present
NextId(rows) ==
  IF rows = <<>> THEN 1
  ELSE 1 + (CHOOSE m \in Ids(rows) : \A n \in Ids(rows) : n =< m)

\* the row as stored: the given id, or the table's next id
Row(rows, book, id) ==
  [id |-> IF id = None THEN NextId(rows) ELSE id[1],
   title |-> book.title, author |-> book.author, tags |-> book.tags]

\* session.add + session.commit of one Book; select(Book) lists by id
InsertRow(rows, book, id) ==
  LET row == Row(rows, book, id)
  IN  SelectSeq(rows, LAMBDA r : r.id < row.id) \o <<row>>
        \o SelectSeq(rows, LAMBDA r : r.id > row.id)

\* session.add of each seed book in order, then one commit
RECURSIVE AddAll(_, _, _)
AddAll(rows, books, i) ==
  IF i > Len(books) THEN rows
  ELSE AddAll(InsertRow(rows, books[i], None), books, i + 1)

\* the seed books added whatever the table holds
BootstrapAlways(rows) == AddAll(rows, initial_books, 1)

\* the table after create_db_and_tables
Bootstrap(rows) ==
  IF rows = <<>> THEN AddAll(rows, initial_books, 1) ELSE rows

\* the number of lines create_db_and_tables prints
BootstrapPrints(rows) == IF rows = <<>> THEN 1 ELSE 0

\* tags_list keeping each piece as cut, not stripped
tags_list_unstripped(tags) ==
  IF tags = <<>> THEN <<>>
  ELSE SelectSeq(split_sep(tags, 44), LAMBDA piece : strip(piece) # <<>>)

\* tags_list of create_book_via_form
tags_list(tags) ==
  IF tags = <<>> THEN <<>>
  ELSE LET pieces == split_sep(tags, 44)
           RECURSIVE Keep(_)
           Keep(i) ==
             IF i > Len(pieces) THEN <<>>
             ELSE IF strip(pieces[i]) = <<>> THEN Keep(i + 1)
             ELSE <<strip(pieces[i])>> \o Keep(i + 1)
       IN  Keep(1)

----------------------------------------------------------------------------
(* Requests, responses and the inputs drawn for them *)

\* all sequences over S of length at most n
SeqsUpTo(S, n) == UNION {[1..k -> S] : k \in 0..n}

\* a request's fields; a field the endpoint does not take is empty
Req(title, author, tags, id, json_tags, user_query) ==
  [title |-> title, author |-> author, tags |-> tags, id |-> id,
   json_tags |-> json_tags, user_query |-> user_query]

NoReq == Req(<<>>, <<>>, <<>>, None, <<>>, <<>>)

\* a response: status, redirect target, the books and the recommended book
\* handed to the template (or returned as JSON), the book returned by
\* POST /books
Resp(status, location, books, recommended_book, book) ==
  [status |-> status, location |-> location, books |-> books,
   recommended_book |-> recommended_book, book |-> book]

NoResp == Resp(0, "", <<>>, None, None)

\* "Test" and "A"
Titles == {<<84, 101, 115, 116>>}

Authors == {<<65>>}

\* "x, y ,  z"
ScenarioTags == <<120, 44, 32, 121, 32, 44, 32, 32, 122>>

\* the tags form fields posted in Spec: "", "x, y ,  z"
FormTags == {<<>>, ScenarioTags}

\* the characters of the tags form fields drawn in SpecForm: x y space comma
FormChars == {120, 121, 32, 44}

\* "hochu motivaciyu i praktiku"
ScenarioQuery ==
  <<1093, 1086, 1095, 1091, 32, 1084, 1086, 1090, 1080, 1074, 1072, 1094,
    1080, 1102, 32, 1080, 32, 1087, 1088, 1072, 1082, 1090, 1080, 1082, 1091>>

\* the queries posted in Spec: the scenario, "", "yumor"
Queries == {ScenarioQuery, <<>>, <<1102, 1084, 1086, 1088>>}

\* the JSON tags posted in Spec: [], ["motivaciyu", "praktiku"]
JsonTags ==
  {<<>>,
   << <<1084, 1086, 1090, 1080, 1074, 1072, 1094, 1080, 1102>>,
      <<1087, 1088, 1072, 1082, 1090, 1080, 1082, 1091>> >>}

\* the id of the JSON payload of POST /books: absent, 1 or 9
JsonIds == {None, Some(1), Some(9)}

\* the characters of the queries drawn in SpecRec: a B space
QueryChars == {97, 66, 32}

\* the tag lists of the books drawn in SpecRec:
\* [], ["a"], ["b"], ["a","b"], ["Ab"], ["b a"]
TagLists ==
  {<<>>, << <<97>> >>, << <<98>> >>, << <<97>>, <<98>> >>,
   << <<65, 98>> >>, << <<98, 32, 97>> >>}

\* the tables drawn in SpecRec: row i has id i
Tables ==
  {[i \in 1..Len(t) |-> [id |-> i, title |-> <<84>>, author |-> <<65>>,
                         tags |-> t[i]]] : t \in SeqsUpTo(TagLists, MaxBooksIn)}

----------------------------------------------------------------------------
(* The program *)

Init ==
  /\ store = <<>>
  /\ started = FALSE
  /\ printed = 0
  /\ op = "none"
  /\ req = NoReq
  /\ resp = NoResp

\* module import: create_db_and_tables(), then the app is created
create_db_and_tables ==
  /\ store' = Bootstrap(store)
  /\ printed' = printed + BootstrapPrints(store)
  /\ started' = TRUE
  /\ op' = "startup"
  /\ req' = NoReq
  /\ resp' = NoResp

\* GET /
read_root ==
  /\ started
  /\ op' = "GET /"
  /\ req' = NoReq
  /\ resp' = Resp(307, "/library", <<>>, None, None)
  /\ UNCHANGED <<store, started, printed>>

\* GET /library
read_books_html ==
  /\ started
  /\ op' = "GET /library"
  /\ req' = NoReq
  /\ resp' = Resp(200, "", store, None, None)
  /\ UNCHANGED <<store, started, printed>>

\* POST /
create_book_via_form(title, author, tags) ==
  /\ started
  /\ op' = "POST /"
  /\ req' = Req(title, author, tags, None, <<>>, <<>>)
  /\ store' = InsertRow(store,
                        [title |-> title, author |-> author,
                         tags |-> tags_list(tags)], None)
  /\ resp' = Resp(303, "/library", <<>>, None, None)
  /\ UNCHANGED <<started, printed>>

\* POST /recommend
get_recommendation(user_query) ==
  /\ started
  /\ op' = "POST /recommend"
  /\ req' = Req(<<>>, <<>>, <<>>, None, <<>>, user_query)
  /\ resp' = Resp(200, "", store, recommend_book_simple(user_query, store), None)
  /\ UNCHANGED <<store, started, printed>>

\* GET /books
read_books ==
  /\ started
  /\ op' = "GET /books"
  /\ req' = NoReq
  /\ resp' = Resp(200, "", store, None, None)
  /\ UNCHANGED <<store, started, printed>>

\* POST /books saving with session.merge: a row with the payload's id is
\* overwritten
create_book_merge(title, author, json_tags, id) ==
  /\ started
  /\ op' = "POST /books"
  /\ req' = Req(title, author, <<>>, id, json_tags, <<>>)
  /\ LET book == [title |-> title, author |-> author, tags |-> json_tags]
     IN  /\ store' = InsertRow(store, book, id)
         /\ resp' = Resp(200, "", <<>>, None, Some(Row(store, book, id)))
  /\ UNCHANGED <<started, printed>>

\* POST /books: the payload is a Book, id included; an id already in the
\* table fails the commit and the error becomes a 500 response
create_book(title, author, json_tags, id) ==
  /\ started
  /\ op' = "POST /books"
  /\ req' = Req(title, author, <<>>, id, json_tags, <<>>)
  /\ LET book == [title |-> title, author |-> author, tags |-> json_tags]
     IN  IF id # None /\ id[1] \in Ids(store)
         THEN /\ store' = store
              /\ resp' = Resp(500, "", <<>>, None, None)
         ELSE /\ store' = InsertRow(store, book, id)
              /\ resp' = Resp(200, "", <<>>, None, Some(Row(store, book, id)))
  /\ UNCHANGED <<started, printed>>

\* room for one more row (a refused POST /books adds none)
CanCreate == Len(store) < Len(initial_books) + MaxCreates

PostForm ==
  \E title \in Titles, author \in Authors, tags \in FormTags :
    CanCreate /\ create_book_via_form(title, author, tags)

PostRecommend == \E user_query \in Queries : get_recommendation(user_query)

PostBooks ==
  \E title \in Titles, author \in Authors, json_tags \in JsonTags, id \in JsonIds :
    /\ CanCreate \/ (id # None /\ id[1] \in Ids(store))
    /\ create_book(title, author, json_tags, id)

Next ==
  \/ create_db_and_tables
  \/ read_root
  \/ read_books_html
  \/ PostForm
  \/ PostRecommend
  \/ read_books
  \/ PostBooks

Spec == Init /\ [][Next]_vars

----------------------------------------------------------------------------
(* recommend_book_simple on drawn inputs: a query of at most MaxQueryLen   *)
(* characters against a table of at most MaxBooksIn books                  *)

InitRec ==
  /\ store \in Tables
  /\ started = TRUE
  /\ printed = 0
  /\ op = "pending"
  /\ req \in {Req(<<>>, <<>>, <<>>, None, <<>>, q) :
                q \in SeqsUpTo(QueryChars, MaxQueryLen)}
  /\ resp = NoResp

ServeRecommend == op = "pending" /\ get_recommendation(req.user_query)

NextRec == ServeRecommend

SpecRec == InitRec /\ [][NextRec]_vars

----------------------------------------------------------------------------
(* POST / on drawn inputs: a tags field of at most MaxFormLen characters,  *)
(* or the scenario's, posted to the freshly seeded table                   *)

InitForm ==
  /\ store = Bootstrap(<<>>)
  /\ started = TRUE
  /\ printed = BootstrapPrints(<<>>)
  /\ op = "pending"
  /\ req \in {Req(title, author, tags, None, <<>>, <<>>) :
                title \in Titles, author \in Authors,
                tags \in SeqsUpTo(FormChars, MaxFormLen) \cup FormTags}
  /\ resp = NoResp

ServeForm == op = "pending" /\ create_book_via_form(req.title, req.author, req.tags)

NextForm == ServeForm

SpecForm == InitForm /\ [][NextForm]_vars

----------------------------------------------------------------------------
(* The match score as the specification words it, on positions of the      *)
(* query rather than on the words list                                     *)

\* the positions of s where a whitespace-separated token starts
TokenStarts(s) ==
  {i \in 1..Len(s) : ~IsSpace(s[i]) /\ (i = 1 \/ IsSpace(s[i - 1]))}

\* the token that starts at i: up to the last character before whitespace
TokenAt(s, i) ==
  LET ends == {j \in i..Len(s) : \A k \in i..j : ~IsSpace(s[k])}
  IN  SubSeq(s, i, CHOOSE j \in ends : \A k \in ends : k =< j)

\* w occurs in t at some offset
IsSlice(w, t) ==
  \E k \in 1..(Len(t) + 1) :
    \A j \in 1..Len(w) : k + j - 1 =< Len(t) /\ t[k + j - 1] = w[j]

\* the first n tags, one space between neighbours
RECURSIVE SpacedTags(_, _)
SpacedTags(tags, n) ==
  IF n = 0 THEN <<>>
  ELSE IF n = 1 THEN tags[1]
  ELSE SpacedTags(tags, n - 1) \o <<32>> \o tags[n]

\* tokens of the lowercased query, each occurrence counted, that occur in
\* the lowercased spaced tags
SpecScore(query, tags) ==
  Cardinality({i \in TokenStarts(lower(query)) :
                 IsSlice(TokenAt(lower(query), i),
                         lower(SpacedTags(tags, Len(tags))))})

\* tokens of the lowercased query, each occurrence counted, that occur in
\* at least one lowercased tag
PerTagScore(query, tags) ==
  Cardinality({i \in TokenStarts(lower(query)) :
                 \E t \in 1..Len(tags) :
                   IsSlice(TokenAt(lower(query), i), lower(tags[t]))})

\* POST /recommend has just been served
Recommended == op = "POST /recommend"

\* the position in the table of the recommended book (ids are distinct)
RecPos == CHOOSE i \in 1..Len(store) : store[i] = resp.recommended_book[1]

\* the query is empty or whitespace only
Blank(q) == \A k \in 1..Len(q) : IsSpace(q[k])

----------------------------------------------------------------------------
(* Claims *)

\* C1: the recommended book has the maximum match score of the table and a
\* score of at least 1; none is recommended exactly when every book of the
\* table scores 0 (an empty table included).
C1_MaxScore ==
  Recommended =>
    LET q == req.user_query
        r == resp.recommended_book
    IN  /\ (r = None) <=> (\A i \in 1..Len(store) : SpecScore(q, store[i].tags) = 0)
        /\ (r # None) =>
             (/\ \E i \in 1..Len(store) : store[i] = r[1]
              /\ SpecScore(q, r[1].tags) >= 1
              /\ \A j \in 1..Len(store) :
                   SpecScore(q, store[j].tags) =< SpecScore(q, r[1].tags))

\* C1 witness: a book scoring 2 is recommended over a book scoring 1
C1_Witness ==
  /\ Recommended
  /\ resp.recommended_book # None
  /\ SpecScore(req.user_query, resp.recommended_book[1].tags) = 2
  /\ \E j \in 1..Len(store) : SpecScore(req.user_query, store[j].tags) = 1

\* C2: among the books that share the maximum nonzero score the earliest
\* in the table is recommended: every book before it scores strictly less.
C2_TieBreak ==
  (Recommended /\ resp.recommended_book # None) =>
    /\ \E i \in 1..Len(store) : store[i] = resp.recommended_book[1]
    /\ \A j \in 1..(RecPos - 1) :
         SpecScore(req.user_query, store[j].tags)
           < SpecScore(req.user_query, store[RecPos].tags)

\* C2 witness: a later book has the same score as the recommended one
C2_Witness ==
  /\ Recommended
  /\ resp.recommended_book # None
  /\ \E j \in (RecPos + 1)..Len(store) :
       SpecScore(req.user_query, store[j].tags)
         = SpecScore(req.user_query, store[RecPos].tags)

\* C3: an empty or whitespace-only query recommends none, with a normal
\* response, whatever the table holds.
C3_BlankQuery ==
  (Recommended /\ Blank(req.user_query)) =>
    (resp.recommended_book = None /\ resp.status = 200)

\* C3 witness: a query of spaces only against a table with a book whose
\* tag holds a space
C3_Witness ==
  /\ Recommended
  /\ req.user_query # <<>>
  /\ Blank(req.user_query)
  /\ \E i \in 1..Len(store) : \E t \in 1..Len(store[i].tags) :
       \E k \in 1..Len(store[i].tags[t]) : IsSpace(store[i].tags[t][k])
  /\ resp.recommended_book = None

\* C4: the recommended book is a book of the table and its tags list is
\* not empty.
C4_HasTags ==
  (Recommended /\ resp.recommended_book # None) =>
    /\ \E i \in 1..Len(store) : store[i] = resp.recommended_book[1]
    /\ resp.recommended_book[1].tags # <<>>

\* C4 witness: a book is recommended although a book without tags comes
\* before it and another after it
C4_Witness ==
  /\ Recommended
  /\ resp.recommended_book # None
  /\ \E j \in 1..(RecPos - 1) : store[j].tags = <<>>
  /\ \E j \in (RecPos + 1)..Len(store) : store[j].tags = <<>>

\* C5: against the seven seed books in insertion order the scenario query
\* recommends the first seed book, "Izuchaem Python", tagged motivaciya,
\* ucheba, razvitie, praktika.
C5_Scenario ==
  (Recommended /\ req.user_query = ScenarioQuery /\ Len(store) = 7
     /\ \A i \in 1..7 : /\ store[i].title = initial_books[i].title
                        /\ store[i].author = initial_books[i].author
                        /\ store[i].tags = initial_books[i].tags) =>
    /\ resp.recommended_book # None
    /\ resp.recommended_book[1].id = 1
    /\ resp.recommended_book[1].title =
         <<1048, 1079, 1091, 1095, 1072, 1077, 1084, 32, 80, 121, 116, 104, 111, 110>>
    /\ resp.recommended_book[1].tags =
         << <<1084, 1086, 1090, 1080, 1074, 1072, 1094, 1080, 1103>>,
            <<1091, 1095, 1077, 1073, 1072>>,
            <<1088, 1072, 1079, 1074, 1080, 1090, 1080, 1077>>,
            <<1087, 1088, 1072, 1082, 1090, 1080, 1082, 1072>> >>

\* C5 witness: the scenario query served on the seeded table
C5_Witness ==
  /\ Recommended
  /\ req.user_query = ScenarioQuery
  /\ Len(store) = 7
  /\ printed = 1
  /\ resp.recommended_book # None
  /\ resp.recommended_book[1].id = 1

\* the pieces of a tags form field as the specification words them: the
\* stretches between commas, each cut down to its first and last
\* non-whitespace character, the stretches without one left out
FormPieces(s) ==
  LET cuts == {0} \cup {i \in 1..Len(s) : s[i] = 44}
      stop(a) == CHOOSE b \in (a + 1)..(Len(s) + 1) :
                   /\ b = Len(s) + 1 \/ s[b] = 44
                   /\ \A c \in (a + 1)..(b - 1) : s[c] # 44
      inner(a) == {i \in (a + 1)..(stop(a) - 1) : ~IsSpace(s[i])}
      kept == {a \in cuts : inner(a) # {}}
      piece(a) == SubSeq(s, CHOOSE i \in inner(a) : \A j \in inner(a) : i =< j,
                            CHOOSE i \in inner(a) : \A j \in inner(a) : j =< i)
  IN  [k \in 1..Cardinality(kept) |->
         piece(CHOOSE a \in kept : Cardinality({b \in kept : b =< a}) = k)]

\* C6: POST / stores a book whose tags are the comma-separated pieces of
\* the tags field, stripped, the empty ones dropped, in order;
\* "x, y ,  z" is stored as ["x","y","z"] and "" as [].
C6_FormTags ==
  op = "POST /" =>
    LET row == store[Len(store)]
    IN  /\ row.title = req.title
        /\ row.author = req.author
        /\ row.tags = FormPieces(req.tags)
        /\ (req.tags = ScenarioTags) => (row.tags = << <<120>>, <<121>>, <<122>> >>)
        /\ (req.tags = <<>>) => (row.tags = <<>>)

\* C6 witness: the scenario's field has been posted and stored as x, y, z
C6_Witness ==
  /\ op = "POST /"
  /\ req.tags = ScenarioTags
  /\ Len(store) = 8
  /\ store[8].tags = << <<120>>, <<121>>, <<122>> >>

\* C7: a bootstrap run on the empty table inserts the seven seed books in
\* their order and prints once; a run on a table with a book changes
\* nothing; the seed books are inserted at most once.
C7_BootstrapOnce ==
  [][ /\ (op' = "startup") =>
          (IF store = <<>>
           THEN /\ Len(store') = 7
                /\ \A i \in 1..7 : /\ store'[i].id = i
                                   /\ store'[i].title = initial_books[i].title
                                   /\ store'[i].author = initial_books[i].author
                                   /\ store'[i].tags = initial_books[i].tags
                /\ printed' = printed + 1
           ELSE store' = store /\ printed' = printed)
      /\ printed' =< 1]_vars

\* C7 witness: a bootstrap run has just been served on a table that holds
\* the seed books and a created book, and the seed books are there once
C7_Witness ==
  /\ op = "startup"
  /\ printed = 1
  /\ Len(store) = 8
  /\ \A i \in 1..7 : store[i].title = initial_books[i].title

\* C8: after an insert through POST / or POST /books the table lists a row
\* with the request's title, author and tags, whose id no other row has
\* and which the table assigned on that insert.
C8_RoundTrip ==
  [][(op' \in {"POST /", "POST /books"} /\ store' # store) =>
       \E i \in 1..Len(store') :
         /\ store'[i].title = req'.title
         /\ store'[i].author = req'.author
         /\ store'[i].tags = IF op' = "POST /" THEN FormPieces(req'.tags)
                             ELSE req'.json_tags
         /\ store'[i].id \notin Ids(store)
         /\ \A j \in 1..Len(store') : j # i => store'[j].id # store'[i].id
         /\ store'[i].id = NextId(store)]_vars

C10_NoCrossTagMatch ==
  \A i \in 1..Len(store) :
    match_score(split(lower(req.user_query)), store[i])
      = PerTagScore(req.user_query, store[i].tags)

\* C10 witness: a query token is the end of one tag followed by the start
\* of the next, and the book is not recommended for it
C10_Witness ==
  /\ Recommended
  /\ \E i \in 1..Len(store) :
       /\ Len(store[i].tags) = 2
       /\ \E k \in TokenStarts(lower(req.user_query)) :
            TokenAt(lower(req.user_query), k)
              = lower(store[i].tags[1] \o store[i].tags[2])
       /\ resp.recommended_book # Some(store[i])

====
